---- MODULE Spec2Model ----
(***************************************************************************)
(* Model of the fantasy-football trade analyzer: the TradeAnalyzer         *)
(* pipeline of trade_analyzer.py (merge, normalize, classify, the query    *)
(* methods), the configuration of fantasy_config.py, and the two scripts   *)
(* that drive the pipeline, main.py and show_my_team.py.                   *)
(*                                                                         *)
(* Numbers are pandas float64 cells, modelled as exact rationals extended  *)
(* with NaN (which is also pandas' null) and the two infinities; rounding  *)
(* of the binary representation is not modelled.                           *)
(***************************************************************************)
EXTENDS Integers, Sequences, FiniteSets, TLC

VARIABLES config, caller, pc, error,
          roster_df, perceived_df, forecasted_df, merged_df, result, previous,
          queried, request, running

vars == <<config, caller, pc, error,
          roster_df, perceived_df, forecasted_df, merged_df, result, previous,
          queried, request, running>>

(***************************************************************************)
(* Bounds of the model.                                                    *)
(***************************************************************************)
\* number of distinct players that exist
MaxPlayers == 2

\* number of players of the three-player league
LeaguePlayers == 3

\* players of the league in which one give-candidate meets four targets
BigLeaguePlayers == 5

\* how many times a caller runs a step of the pipeline again
MaxRepeats == 1

(***************************************************************************)
(* float64 cells                                                           *)
(***************************************************************************)
RECURSIVE GCD(_, _)
GCD(a, b) == IF b = 0 THEN a ELSE GCD(b, a % b)

Abs(x) == IF x < 0 THEN -x ELSE x

Sign(x) == IF x < 0 THEN -1 ELSE IF x > 0 THEN 1 ELSE 0

NaN == [k |-> "nan", n |-> 0, d |-> 1]

\* +inf for s = 1, -inf for s = -1
Inf(s) == [k |-> "inf", n |-> s, d |-> 1]

\* the rational n/d (d > 0), in lowest terms
Fin(n, d) ==
  LET g == GCD(Abs(n), d)
  IN  [k |-> "fin", n |-> n \div g, d |-> d \div g]

Num(i) == Fin(i, 1)

\* pandas isna / notna
isna(x) == x.k = "nan"

notna(x) == ~isna(x)

\* IEEE comparisons: every comparison with NaN is false
FLt(a, b) ==
  /\ notna(a)
  /\ notna(b)
  /\ IF a.k = "inf" THEN a.n < 0 /\ ~(b.k = "inf" /\ b.n < 0)
     ELSE IF b.k = "inf" THEN b.n > 0
     ELSE a.n * b.d < b.n * a.d

FGt(a, b) == FLt(b, a)

FLe(a, b) == notna(a) /\ notna(b) /\ ~FLt(b, a)

FGe(a, b) == FLe(b, a)

FNeg(a) ==
  IF a.k = "nan" THEN NaN
  ELSE IF a.k = "inf" THEN Inf(-a.n)
  ELSE Fin(-a.n, a.d)

FAdd(a, b) ==
  IF isna(a) \/ isna(b) THEN NaN
  ELSE IF a.k = "inf" /\ b.k = "inf" THEN (IF a.n = b.n THEN a ELSE NaN)
  ELSE IF a.k = "inf" THEN a
  ELSE IF b.k = "inf" THEN b
  ELSE Fin(a.n * b.d + b.n * a.d, a.d * b.d)

FSub(a, b) == FAdd(a, FNeg(b))

FMul(a, b) ==
  IF isna(a) \/ isna(b) THEN NaN
  ELSE IF a.k = "inf" \/ b.k = "inf"
       THEN (IF Sign(a.n) * Sign(b.n) = 0 THEN NaN ELSE Inf(Sign(a.n) * Sign(b.n)))
  ELSE Fin(a.n * b.n, a.d * b.d)

\* float division as numpy does it: x/0 is an infinity, 0/0 is NaN, no exception
FDiv(a, b) ==
  IF isna(a) \/ isna(b) THEN NaN
  ELSE IF b.k = "inf" THEN (IF a.k = "inf" THEN NaN ELSE Num(0))
  ELSE IF b.n = 0 THEN (IF Sign(a.n) = 0 THEN NaN ELSE Inf(Sign(a.n)))
  ELSE IF a.k = "inf" THEN Inf(Sign(a.n) * Sign(b.n))
  ELSE Fin(a.n * b.d * Sign(b.n), a.d * Abs(b.n))

(***************************************************************************)
(* Sequences                                                               *)
(***************************************************************************)
RECURSIVE Flatten(_)
Flatten(ss) == IF ss = <<>> THEN <<>> ELSE Head(ss) \o Flatten(Tail(ss))

Range(s) == {s[i] : i \in 1..Len(s)}

\* DataFrame.head(n)
head(s, n) == SubSeq(s, 1, IF Len(s) < n THEN Len(s) ELSE n)

\* Series.sum() / Series.mean(): nulls are skipped (skipna=True)
RECURSIVE FSum(_)
FSum(s) ==
  IF s = <<>> THEN Num(0)
  ELSE IF isna(Head(s)) THEN FSum(Tail(s))
  ELSE FAdd(Head(s), FSum(Tail(s)))

mean(s) ==
  LET present == SelectSeq(s, notna)
  IN  IF present = <<>> THEN NaN ELSE FDiv(FSum(present), Num(Len(present)))

\* DataFrame.sort_values on a float column, over a sequence of
\* [key, row] pairs: pairs with a null key go last, pairs with equal keys
\* keep their order
RECURSIVE InsertSorted(_, _, _)
InsertSorted(e, s, ascending) ==
  IF s = <<>> THEN <<e>>
  ELSE IF /\ notna(e.key)
          /\ \/ isna(Head(s).key)
             \/ (IF ascending THEN FLt(e.key, Head(s).key) ELSE FGt(e.key, Head(s).key))
       THEN <<e>> \o s
  ELSE <<Head(s)>> \o InsertSorted(e, Tail(s), ascending)

RECURSIVE SortKeyed(_, _)
SortKeyed(s, ascending) ==
  IF s = <<>> THEN <<>>
  ELSE InsertSorted(s[Len(s)], SortKeyed(SubSeq(s, 1, Len(s) - 1), ascending), ascending)

(***************************************************************************)
(* Tables.  A DataFrame is a record of its column names and its rows; a    *)
(* row holds every field the model uses, a field of a column the frame     *)
(* does not have yet holding the placeholder NaN or "".  The pass-through  *)
(* columns (team_id, wins, losses, overall_rank values, nfl_team, ...)     *)
(* are carried by name only.                                               *)
(***************************************************************************)
RosterColumns == {"player_name", "position", "team_name"}

\* the columns FantasyCalcClient.get_redraft_values produces
FantasyCalcColumns ==
  {"player_name", "position", "perceived_value", "overall_rank",
   "perceived_value_adjusted"}

\* the columns AlternativeValueSource.get_adp_values produces
ADPColumns == {"player_name", "position", "adp", "perceived_value"}

\* self.merged_df = None
NoneDF == [none |-> TRUE, columns |-> {}, rows |-> <<>>]

DF(columns, rows) == [none |-> FALSE, columns |-> columns, rows |-> rows]

\* DataFrame.empty
empty(df) == df.rows = <<>>

MergedRow(r, pv, pva, fv) ==
  [player_name |-> r.player_name, position |-> r.position,
   team_name |-> r.team_name,
   perceived_value |-> pv, perceived_value_adjusted |-> pva,
   forecasted_value |-> fv,
   perceived_normalized |-> NaN, forecasted_normalized |-> NaN,
   discount_premium |-> NaN, value_category |-> "", interpretation |-> ""]

\* left.merge(right, on='player_name', how='left'): every left row, once per
\* right row of the same player_name, or once with nulls when there is none
\* (the pairs of a left row and its match; an unmatched left row is paired
\* with itself and marked)
LeftMerge(left, right) ==
  Flatten([i \in 1..Len(left) |->
    LET m == SelectSeq(right, LAMBDA r : r.player_name = left[i].player_name)
    IN  IF m = <<>> THEN <<[matched |-> FALSE, l |-> left[i], r |-> left[i]]>>
        ELSE [j \in 1..Len(m) |-> [matched |-> TRUE, l |-> left[i], r |-> m[j]]]])

\* the forecasted column merge_data_sources reads: rest_of_season_projection
\* first, else forecasted_value, else none
ForecastColumn(df) ==
  IF "rest_of_season_projection" \in df.columns THEN "rest_of_season_projection"
  ELSE IF "forecasted_value" \in df.columns THEN "forecasted_value"
  ELSE ""

\* merge_data_sources without the step that puts the adjusted value in
\* perceived_value
merge_data_sources_keeping_raw(roster, perceived, forecasted) ==
  IF ~({"player_name", "perceived_value", "perceived_value_adjusted",
        "overall_rank"} \subseteq perceived.columns)
  THEN [raised |-> "KeyError", df |-> NoneDF]
  ELSE IF ForecastColumn(forecasted) = ""
  THEN [raised |-> "KeyError", df |-> NoneDF]
  ELSE
    LET m1 == LeftMerge(roster.rows, perceived.rows)
        d1 == [i \in 1..Len(m1) |->
                 IF m1[i].matched
                 THEN MergedRow(m1[i].l, m1[i].r.perceived_value,
                                m1[i].r.perceived_value_adjusted, NaN)
                 ELSE MergedRow(m1[i].l, NaN, NaN, NaN)]
        col == ForecastColumn(forecasted)
        m2 == LeftMerge(d1, forecasted.rows)
        d2 == [i \in 1..Len(m2) |->
                 IF m2[i].matched
                 THEN [m2[i].l EXCEPT !.forecasted_value = m2[i].r[col]]
                 ELSE m2[i].l]
        \* df.dropna(subset=['perceived_value', 'forecasted_value'])
        d3 == SelectSeq(d2, LAMBDA r : notna(r.perceived_value)
                                       /\ notna(r.forecasted_value))
        d4 == d3
    IN  [raised |-> "",
         df |-> DF(roster.columns
                     \cup {"perceived_value", "perceived_value_adjusted",
                           "overall_rank", "forecasted_value"},
                   d4)]

\* TradeAnalyzer.merge_data_sources: the value of merged_df it stores, or the
\* exception it raises (merged_df is then left as it was)
merge_data_sources(roster, perceived, forecasted) ==
  IF ~({"player_name", "perceived_value", "perceived_value_adjusted",
        "overall_rank"} \subseteq perceived.columns)
  THEN [raised |-> "KeyError", df |-> NoneDF]
  ELSE IF ForecastColumn(forecasted) = ""
  THEN [raised |-> "KeyError", df |-> NoneDF]
  ELSE
    LET m1 == LeftMerge(roster.rows, perceived.rows)
        d1 == [i \in 1..Len(m1) |->
                 IF m1[i].matched
                 THEN MergedRow(m1[i].l, m1[i].r.perceived_value,
                                m1[i].r.perceived_value_adjusted, NaN)
                 ELSE MergedRow(m1[i].l, NaN, NaN, NaN)]
        col == ForecastColumn(forecasted)
        m2 == LeftMerge(d1, forecasted.rows)
        d2 == [i \in 1..Len(m2) |->
                 IF m2[i].matched
                 THEN [m2[i].l EXCEPT !.forecasted_value = m2[i].r[col]]
                 ELSE m2[i].l]
        \* df.dropna(subset=['perceived_value', 'forecasted_value'])
        d3 == SelectSeq(d2, LAMBDA r : notna(r.perceived_value)
                                       /\ notna(r.forecasted_value))
        \* df['perceived_value'] = df['perceived_value_adjusted']
        d4 == [i \in 1..Len(d3) |->
                 [d3[i] EXCEPT !.perceived_value = d3[i].perceived_value_adjusted]]
    IN  [raised |-> "",
         df |-> DF(roster.columns
                     \cup {"perceived_value", "perceived_value_adjusted",
                           "overall_rank", "forecasted_value"},
                   d4)]

\* normalize_values with forecasted_value divided by the perceived average
normalize_values_one_average(df) ==
  LET avg_perceived == mean([i \in 1..Len(df.rows) |-> df.rows[i].perceived_value])
  IN  DF(df.columns \cup {"perceived_normalized", "forecasted_normalized"},
         [i \in 1..Len(df.rows) |->
            [df.rows[i] EXCEPT
               !.perceived_normalized =
                  FMul(FDiv(df.rows[i].perceived_value, avg_perceived), Num(100)),
               !.forecasted_normalized =
                  FMul(FDiv(df.rows[i].forecasted_value, avg_perceived), Num(100))]])

\* TradeAnalyzer.normalize_values
normalize_values(df) ==
  LET avg_perceived == mean([i \in 1..Len(df.rows) |-> df.rows[i].perceived_value])
      avg_forecasted == mean([i \in 1..Len(df.rows) |-> df.rows[i].forecasted_value])
  IN  DF(df.columns \cup {"perceived_normalized", "forecasted_normalized"},
         [i \in 1..Len(df.rows) |->
            [df.rows[i] EXCEPT
               !.perceived_normalized =
                  FMul(FDiv(df.rows[i].perceived_value, avg_perceived), Num(100)),
               !.forecasted_normalized =
                  FMul(FDiv(df.rows[i].forecasted_value, avg_forecasted), Num(100))]])

\* the lambda with Overvalued tested against the discount threshold
value_category_one_threshold(x, cfg) ==
  IF FGt(x, Num(cfg.MIN_DISCOUNT_THRESHOLD)) THEN "Undervalued"
  ELSE IF FLt(x, Num(cfg.MIN_DISCOUNT_THRESHOLD)) THEN "Overvalued"
  ELSE "Fair Value"

\* the lambda of calculate_discount_premium
value_category(x, cfg) ==
  IF FGt(x, Num(cfg.MIN_DISCOUNT_THRESHOLD)) THEN "Undervalued"
  ELSE IF FLt(x, Num(cfg.MIN_PREMIUM_THRESHOLD)) THEN "Overvalued"
  ELSE "Fair Value"

\* TradeAnalyzer._interpret_discount
interpret_discount(value) ==
  IF FGt(value, Num(30)) THEN "Severely undervalued - BUY"
  ELSE IF FGt(value, Num(10)) THEN "Undervalued - Good buy target"
  ELSE IF FGt(value, Num(-10)) THEN "Fair value"
  ELSE IF FGt(value, Num(-30)) THEN "Overvalued - Good sell candidate"
  ELSE "Severely overvalued - SELL"

\* the formula with the two normalized values exchanged in the numerator
discount_premium_of_price_over_forecast(row) ==
  FMul(FDiv(FSub(row.perceived_normalized, row.forecasted_normalized),
            row.forecasted_normalized),
       Num(100))

\* the Reddit formula of calculate_discount_premium
discount_premium(row) ==
  FMul(FDiv(FSub(row.forecasted_normalized, row.perceived_normalized),
            row.forecasted_normalized),
       Num(100))

\* calculate_discount_premium adding the new discount_premium to the one a
\* classified table already carries
calculate_discount_premium_accumulating(df, cfg) ==
  DF(df.columns \cup {"discount_premium", "value_category", "interpretation"},
     [i \in 1..Len(df.rows) |->
        LET x == IF "discount_premium" \in df.columns
                 THEN FAdd(df.rows[i].discount_premium, discount_premium(df.rows[i]))
                 ELSE discount_premium(df.rows[i])
        IN  [df.rows[i] EXCEPT !.discount_premium = x,
                               !.value_category = value_category(x, cfg),
                               !.interpretation = interpret_discount(x)]])

\* TradeAnalyzer.calculate_discount_premium
calculate_discount_premium(df, cfg) ==
  DF(df.columns \cup {"discount_premium", "value_category", "interpretation"},
     [i \in 1..Len(df.rows) |->
        LET x == discount_premium(df.rows[i])
        IN  [df.rows[i] EXCEPT !.discount_premium = x,
                               !.value_category = value_category(x, cfg),
                               !.interpretation = interpret_discount(x)]])

(***************************************************************************)
(* The query methods of TradeAnalyzer                                      *)
(***************************************************************************)
\* rows.sort_values('discount_premium', ascending=...)
SortByDiscount(rows, ascending) ==
  LET keyed == [i \in 1..Len(rows) |-> [key |-> rows[i].discount_premium, row |-> rows[i]]]
      sorted == SortKeyed(keyed, ascending)
  IN  [i \in 1..Len(sorted) |-> sorted[i].row]

\* TradeAnalyzer.get_team_data
get_team_data(df, team_name) ==
  SelectSeq(df.rows, LAMBDA r : r.team_name = team_name)

\* TradeAnalyzer.analyze_team
analyze_team(df, team_name, cfg) ==
  LET team_df == SelectSeq(df.rows, LAMBDA r : r.team_name = team_name)
  IN  [overvalued |->
         SortByDiscount(
           SelectSeq(team_df, LAMBDA r : FLt(r.discount_premium,
                                             Num(cfg.MIN_PREMIUM_THRESHOLD))),
           TRUE),
       undervalued |->
         SortByDiscount(
           SelectSeq(team_df, LAMBDA r : FGt(r.discount_premium,
                                             Num(cfg.MIN_DISCOUNT_THRESHOLD))),
           FALSE)]

\* find_trade_targets keeping the untouchable players
find_trade_targets_keeping_untouchables(df, your_team, position_filter, cfg) ==
  LET other_teams == SelectSeq(df.rows, LAMBDA r : r.team_name # your_team)
      targets == SelectSeq(other_teams,
                           LAMBDA r : FGt(r.discount_premium,
                                          Num(cfg.MIN_DISCOUNT_THRESHOLD)))
      filtered == IF position_filter # ""
                  THEN SelectSeq(targets, LAMBDA r : r.position = position_filter)
                  ELSE targets
  IN  SortByDiscount(filtered, FALSE)

\* TradeAnalyzer.find_trade_targets; position_filter "" is the default None
find_trade_targets(df, your_team, position_filter, cfg) ==
  LET other_teams == SelectSeq(df.rows, LAMBDA r : r.team_name # your_team)
      targets == SelectSeq(other_teams,
                           LAMBDA r : FGt(r.discount_premium,
                                          Num(cfg.MIN_DISCOUNT_THRESHOLD)))
      filtered == IF position_filter # ""
                  THEN SelectSeq(targets, LAMBDA r : r.position = position_filter)
                  ELSE targets
      touchable == IF cfg.UNTOUCHABLE_PLAYERS # {}
                   THEN SelectSeq(filtered,
                                  LAMBDA r : r.player_name \notin cfg.UNTOUCHABLE_PLAYERS)
                   ELSE filtered
  IN  SortByDiscount(touchable, FALSE)

\* the band with its lower end left open
similar_without_lower_end(trade_targets, your_perceived, tolerance) ==
  SelectSeq(trade_targets,
            LAMBDA r : FLe(r.perceived_normalized,
                           FMul(your_perceived, FAdd(Num(1), tolerance))))

\* the targets whose perceived_normalized lies in the tolerance band of
\* your_perceived (trade_analyzer.py lines 197-200)
similar(trade_targets, your_perceived, tolerance) ==
  SelectSeq(trade_targets,
            LAMBDA r :
              /\ FGe(r.perceived_normalized,
                     FMul(your_perceived, FSub(Num(1), tolerance)))
              /\ FLe(r.perceived_normalized,
                     FMul(your_perceived, FAdd(Num(1), tolerance))))

\* "Only suggest if we gain value"
gains_value(value_gain) == FGt(value_gain, Num(5))

\* the record suggest_trade_pairs appends for one pair
Suggestion(your_player, target) ==
  LET value_gain == FSub(target.forecasted_normalized, your_player.forecasted_normalized)
  IN  [give_player |-> your_player.player_name,
       give_position |-> your_player.position,
       give_perceived |-> your_player.perceived_normalized,
       give_forecasted |-> your_player.forecasted_normalized,
       give_discount |-> your_player.discount_premium,
       get_player |-> target.player_name,
       get_position |-> target.position,
       get_team |-> target.team_name,
       get_perceived |-> target.perceived_normalized,
       get_forecasted |-> target.forecasted_normalized,
       get_discount |-> target.discount_premium,
       value_gain |-> value_gain,
       value_gain_pct |->
         IF FGt(your_player.forecasted_normalized, Num(0))
         THEN FMul(FDiv(value_gain, your_player.forecasted_normalized), Num(100))
         ELSE Num(0)]

\* the loop over one give-candidate going through every similar target
PairsFor_every_similar_target(your_player, trade_targets, tolerance) ==
  LET near == similar(trade_targets, your_player.perceived_normalized, tolerance)
  IN  Flatten([j \in 1..Len(near) |->
        LET s == Suggestion(your_player, near[j])
        IN  IF gains_value(s.value_gain) THEN <<s>> ELSE <<>>])

\* the suggestions the loop over one give-candidate appends
PairsFor(your_player, trade_targets, tolerance) ==
  LET near == head(similar(trade_targets, your_player.perceived_normalized, tolerance), 3)
  IN  Flatten([j \in 1..Len(near) |->
        LET s == Suggestion(your_player, near[j])
        IN  IF gains_value(s.value_gain) THEN <<s>> ELSE <<>>])

\* suggest_trade_pairs with the loop run for the first give-candidate only
suggest_trade_pairs_first_candidate_only(df, your_team, max_suggestions, cfg) ==
  LET your_overvalued == analyze_team(df, your_team, cfg).overvalued
      trade_targets == find_trade_targets(df, your_team, "", cfg)
  IN  IF your_overvalued = <<>> \/ trade_targets = <<>>
      THEN [raised |-> "", rows |-> <<>>]
      ELSE IF cfg.VALUE_MATCH_TOLERANCE.k = "missing"
      THEN [raised |-> "AttributeError", rows |-> <<>>]
      ELSE
        LET suggestions ==
              PairsFor(your_overvalued[1], trade_targets, cfg.VALUE_MATCH_TOLERANCE)
            keyed == [i \in 1..Len(suggestions) |->
                        [key |-> suggestions[i].value_gain, row |-> suggestions[i]]]
            sorted == SortKeyed(keyed, FALSE)
        IN  [raised |-> "",
             rows |-> head([i \in 1..Len(sorted) |-> sorted[i].row], max_suggestions)]

\* suggest_trade_pairs cutting the list to max_suggestions before sorting it
suggest_trade_pairs_cut_before_sort(df, your_team, max_suggestions, cfg) ==
  LET your_overvalued == analyze_team(df, your_team, cfg).overvalued
      trade_targets == find_trade_targets(df, your_team, "", cfg)
  IN  IF your_overvalued = <<>> \/ trade_targets = <<>>
      THEN [raised |-> "", rows |-> <<>>]
      ELSE IF cfg.VALUE_MATCH_TOLERANCE.k = "missing"
      THEN [raised |-> "AttributeError", rows |-> <<>>]
      ELSE
        LET suggestions ==
              head(Flatten([i \in 1..Len(your_overvalued) |->
                     PairsFor(your_overvalued[i], trade_targets,
                              cfg.VALUE_MATCH_TOLERANCE)]),
                   max_suggestions)
            keyed == [i \in 1..Len(suggestions) |->
                        [key |-> suggestions[i].value_gain, row |-> suggestions[i]]]
            sorted == SortKeyed(keyed, FALSE)
        IN  [raised |-> "", rows |-> [i \in 1..Len(sorted) |-> sorted[i].row]]

\* suggest_trade_pairs from its two local tables on (lines 187-227): the
\* rows it returns, or the exception it raises.  config.VALUE_MATCH_TOLERANCE
\* is read in the loop body, so a configuration without it raises
\* AttributeError on the first give-candidate.
pair_suggestions(your_overvalued, trade_targets, max_suggestions, cfg) ==
  IF your_overvalued = <<>> \/ trade_targets = <<>>
  THEN [raised |-> "", rows |-> <<>>]
  ELSE IF cfg.VALUE_MATCH_TOLERANCE.k = "missing"
  THEN [raised |-> "AttributeError", rows |-> <<>>]
  ELSE
    LET suggestions ==
          Flatten([i \in 1..Len(your_overvalued) |->
            PairsFor(your_overvalued[i], trade_targets, cfg.VALUE_MATCH_TOLERANCE)])
        keyed == [i \in 1..Len(suggestions) |->
                    [key |-> suggestions[i].value_gain, row |-> suggestions[i]]]
        sorted == SortKeyed(keyed, FALSE)
    IN  [raised |-> "",
         rows |-> head([i \in 1..Len(sorted) |-> sorted[i].row], max_suggestions)]

\* TradeAnalyzer.suggest_trade_pairs
suggest_trade_pairs(df, your_team, max_suggestions, cfg) ==
  pair_suggestions(analyze_team(df, your_team, cfg).overvalued,
                   find_trade_targets(df, your_team, "", cfg),
                   max_suggestions, cfg)

\* Series.max() / Series.min(): nulls are skipped, NaN when nothing is left
RECURSIVE FExtreme(_, _)
FExtreme(s, largest) ==
  IF s = <<>> THEN NaN
  ELSE LET rest == FExtreme(Tail(s), largest)
           x == Head(s)
       IN  IF isna(x) THEN rest
           ELSE IF isna(rest) THEN x
           ELSE IF (IF largest THEN FGt(x, rest) ELSE FLt(x, rest)) THEN x
           ELSE rest

\* TradeAnalyzer.get_summary_stats
get_summary_stats(df) ==
  LET count(c) == Len(SelectSeq(df.rows, LAMBDA r : r.value_category = c))
      dp == [i \in 1..Len(df.rows) |-> df.rows[i].discount_premium]
  IN  [total_players |-> Len(df.rows),
       undervalued_count |-> count("Undervalued"),
       overvalued_count |-> count("Overvalued"),
       fair_value_count |-> count("Fair Value"),
       avg_discount_premium |-> mean(dp),
       max_discount |-> FExtreme(dp, TRUE),
       max_premium |-> FExtreme(dp, FALSE)]

(***************************************************************************)
(* Configuration (fantasy_config.py)                                       *)
(***************************************************************************)
\* a setting the configuration module does not define
Missing == [k |-> "missing", n |-> 0, d |-> 1]

PPR_MAPPING == {"ppr", "half_ppr", "standard"}

\* POSITION_SCARCITY_MULTIPLIERS.get(position, 1.0)
POSITION_SCARCITY_MULTIPLIER(position) ==
  CASE position = "QB" -> Fin(4, 5)
    [] position = "RB" -> Fin(6, 5)
    [] position = "WR" -> Num(1)
    [] position = "TE" -> Fin(11, 10)
    [] position = "K" -> Fin(1, 2)
    [] position = "D/ST" -> Fin(3, 5)
    [] OTHER -> Num(1)

\* fantasy_config.py as the repository ships it, for a league id and a scoring
\* format read from the environment: VALUE_MATCH_TOLERANCE is not defined
ShippedConfig(league_id, scoring_format) ==
  [LEAGUE_ID |-> league_id, SEASON |-> 2025, SCORING_FORMAT |-> scoring_format,
   MIN_DISCOUNT_THRESHOLD |-> 10, MIN_PREMIUM_THRESHOLD |-> -10,
   UNTOUCHABLE_PLAYERS |-> {},
   VALUE_MATCH_TOLERANCE |-> Missing]

\* "Ignore players below this value (waiver wire)"
MIN_PERCEIVED_VALUE == 5

\* validate_config: TRUE when it returns True, FALSE when it raises ValueError
validate_config(cfg) ==
  /\ cfg.LEAGUE_ID # 0
  /\ cfg.SEASON # 0
  /\ cfg.SCORING_FORMAT \in PPR_MAPPING

(***************************************************************************)
(* The inputs the model draws from                                         *)
(***************************************************************************)
AllNames == <<"Alice", "Bob", "Dave", "Erin", "Finn", "Gina">>

Names == {AllNames[i] : i \in 1..MaxPlayers}

\* each player's position, the same in every source
PositionOf(name) == IF name \in {"Alice", "Dave"} THEN "RB" ELSE "WR"

Teams == {"TeamX", "TeamY"}

Positions == {"RB", "WR"}

PerceivedValues == {0, 100}

ForecastedValues == {0, 50, 150}

\* the max_suggestions arguments tried: 1 and the default
DefaultMaxSuggestions == 10

MaxSuggestionArgs == {1, DefaultMaxSuggestions}

\* what a user may have added to fantasy_config.py
Tolerances == {Missing, Fin(1, 4)}

UntouchableLists == {{}, {"Alice"}}

Configs(league_ids, scoring_formats) ==
  {[ShippedConfig(l, s) EXCEPT !.UNTOUCHABLE_PLAYERS = u, !.VALUE_MATCH_TOLERANCE = tol] :
     l \in league_ids, s \in scoring_formats, u \in UntouchableLists, tol \in Tolerances}

\* the rows f gives for the players, in the order of AllNames
InOrder(f) == Flatten([i \in 1..MaxPlayers |-> f[AllNames[i]]])

RosterTables ==
  {DF(RosterColumns,
      InOrder([nm \in Names |-> IF t[nm] = "" THEN <<>>
                          ELSE <<[player_name |-> nm, position |-> PositionOf(nm),
                                  team_name |-> t[nm]]>>])) :
     t \in [Names -> Teams \cup {""}]}

\* one row of a perceived table; FantasyCalcClient.get_redraft_values computes
\* perceived_value_adjusted as the value times the position's multiplier
PerceivedRow(nm, v, adjusted) ==
  [player_name |-> nm, position |-> PositionOf(nm), perceived_value |-> Num(v),
   perceived_value_adjusted |->
     IF adjusted THEN FMul(Num(v), POSITION_SCARCITY_MULTIPLIER(PositionOf(nm)))
     ELSE NaN]

PerceivedTable(columns, c) ==
  DF(columns, InOrder([nm \in Names |-> IF c[nm].listed
                                  THEN <<PerceivedRow(nm, c[nm].v, c[nm].adjusted)>>
                                  ELSE <<>>]))

Unlisted == [listed |-> FALSE, v |-> 0, adjusted |-> TRUE]

\* the tables get_redraft_values can return: every row adjusted
FantasyCalcCells == {Unlisted} \cup [listed : {TRUE}, v : PerceivedValues, adjusted : {TRUE}]

\* the perceived tables of the input contract: perceived_value_adjusted is
\* optional on each row
ContractPerceivedCells ==
  {Unlisted} \cup [listed : {TRUE}, v : PerceivedValues, adjusted : BOOLEAN]

ForecastRow(nm, column, v) ==
  [player_name |-> nm,
   rest_of_season_projection |-> IF column = "rest_of_season_projection" THEN Num(v) ELSE NaN,
   forecasted_value |-> IF column = "forecasted_value" THEN Num(v) ELSE NaN,
   recent_avg |-> NaN,
   forecasted_value_adjusted |-> NaN]

ForecastTable(column, c) ==
  DF({"player_name", column},
     InOrder([nm \in Names |-> IF c[nm] < 0 THEN <<>> ELSE <<ForecastRow(nm, column, c[nm])>>]))

\* pd.DataFrame(): no columns, no rows
EmptyDF == DF({}, <<>>)

\* the tables a caller of the class may pass under the input contract
ContractPerceivedTables ==
  {PerceivedTable(FantasyCalcColumns, c) : c \in [Names -> ContractPerceivedCells]}

ContractForecastTables ==
  {ForecastTable("forecasted_value", c) : c \in [Names -> {-1} \cup ForecastedValues]}

\* show_my_team.py's dummy forecasted values
DummyForecast ==
  DF({"player_name", "forecasted_value"},
     <<ForecastRow("Christian McCaffrey", "forecasted_value", 200),
       ForecastRow("Josh Allen", "forecasted_value", 180),
       ForecastRow("A.J. Brown", "forecasted_value", 160)>>)

(***************************************************************************)
(* State machine.  caller is who drives the analyzer: main.py,             *)
(* show_my_team.py, or "core", any code that constructs a TradeAnalyzer    *)
(* on tables of the input contract and calls its methods.  pc is the       *)
(* caller's position; at "exit" error holds the message or exception that  *)
(* ended the run.  result holds what the last query returned, until the    *)
(* caller has used it.  previous holds the copies of merged_df the caller  *)
(* kept before it ran a step of the pipeline again, queried the calls      *)
(* get_perceived_values has made to the value sources, in order, request   *)
(* what became of the HTTP request of the last ESPNClient._make_request,   *)
(* running the query each team has under way on the analyzer, with the     *)
(* local tables of the call.                                               *)
(***************************************************************************)
NoStats ==
  [total_players |-> 0, undervalued_count |-> 0, overvalued_count |-> 0,
   fair_value_count |-> 0, avg_discount_premium |-> NaN, max_discount |-> NaN,
   max_premium |-> NaN]

Result(op, team, position_filter, max_suggestions, raised, rows, rows2, stats) ==
  [op |-> op, your_team |-> team, position_filter |-> position_filter,
   max_suggestions |-> max_suggestions, raised |-> raised,
   rows |-> rows, rows2 |-> rows2, stats |-> stats]

NoResult == Result("", "", "", 0, "", <<>>, <<>>, NoStats)

tables == <<roster_df, perceived_df, forecasted_df>>

\* a call of a query under way: the operation, how far it is, the table the
\* analyzer held when it was called, its local tables and what it returned
Call(op, at, table, local, targets, returned) ==
  [op |-> op, at |-> at, table |-> table, local |-> local, targets |-> targets,
   returned |-> returned]

\* what a query returns: an exception or up to two tables
Answer(raised, rows, rows2) == [raised |-> raised, rows |-> rows, rows2 |-> rows2]

Idle == Call("", "idle", NoneDF, <<>>, <<>>, Answer("", <<>>, <<>>))

\* nothing has run yet
NotStarted ==
  /\ pc = "start"
  /\ error = ""
  /\ roster_df = NoneDF
  /\ perceived_df = NoneDF
  /\ forecasted_df = NoneDF
  /\ merged_df = NoneDF
  /\ result = NoResult
  /\ previous = <<>>
  /\ queried = <<>>
  /\ request = "none"
  /\ running = [t \in Teams |-> Idle]

Init ==
  /\ caller \in {"core", "main", "show_my_team"}
  /\ config \in CASE caller = "main" -> Configs({0, 1}, {"ppr", "superflex"})
                  [] caller = "show_my_team" -> Configs({0, 1}, {"ppr"})
                  [] OTHER -> Configs({1}, {"ppr"})
  /\ NotStarted

Exit(message) ==
  /\ pc' = "exit"
  /\ error' = message

\* sys.exit(1)
FailureStatus == 1

\* the exit status of a run that ended on a message or exception: main.py
\* calls sys.exit(1) after every failure message and in its top-level
\* exception handler; show_my_team.py calls exit(1) for missing market
\* values and ends normally after printing any exception
exit_status(who, message) ==
  IF who = "main" \/ message = "Failed to fetch perceived values"
  THEN FailureStatus
  ELSE 0

\* main.py lines 76-82
ValidateConfig ==
  /\ caller = "main"
  /\ pc = "start"
  /\ IF validate_config(config)
     THEN pc' = "validated" /\ UNCHANGED error
     ELSE Exit("Configuration Error")
  /\ UNCHANGED <<running, request, queried, previous, config, caller, tables, merged_df, result>>

(***************************************************************************)
(* Fetching the three tables (espn_client.py, value_sources.py and the     *)
(* scripts' steps before the analyzer is built)                            *)
(***************************************************************************)
\* what requests.get and raise_for_status do for the ESPN API during a run:
\* a body, an error status, or no response at all (timeout, connection
\* failure)
Responses == {"ok", "http_error", "no_response"}

\* ESPNClient._make_request: the body, or None after an error status; when
\* requests.get itself raised, the handler reads response.status_code of a
\* response that was never bound, and UnboundLocalError leaves the method
make_request(response) ==
  CASE response = "ok" -> [raised |-> "", data |-> TRUE]
    [] response = "http_error" -> [raised |-> "", data |-> FALSE]
    [] OTHER -> [raised |-> "UnboundLocalError", data |-> FALSE]

\* ESPNClient.get_league_info: the info dict, or None without data
get_league_info(response) ==
  LET d == make_request(response)
  IN  [raised |-> d.raised, info |-> d.data]

\* league info (main.py only), teams and rosters: "" when the roster table
\* r was loaded, else the message or exception that ends the run; merging an
\* empty teams or rosters frame on team_id raises KeyError
league_data(who, response, r) ==
  IF make_request(response).raised # "" THEN make_request(response).raised
  ELSE IF who = "main" /\ ~get_league_info(response).info
  THEN "Failed to connect to ESPN league"
  ELSE IF ~make_request(response).data \/ empty(r) THEN "KeyError"
  ELSE ""

\* a request of a value source that raised
RequestFailed == [none |-> TRUE, columns |-> {"failed"}, rows |-> <<>>]

\* FantasyCalcClient.get_redraft_values: the table of the response with the
\* adjusted values, the empty frame after any exception or for no items
get_redraft_values(response) ==
  IF response = RequestFailed \/ empty(response) THEN EmptyDF ELSE response

\* AlternativeValueSource.get_adp_values: the table of the response, the
\* empty frame after any exception
get_adp_values(response) ==
  IF response = RequestFailed \/ empty(response) THEN EmptyDF ELSE response

\* one call of a value source: whether its request failed and the table the
\* call returned
Query(source, response, returned) ==
  [source |-> source, failed |-> response = RequestFailed, df |-> returned]

\* get_perceived_values with the ADP source asked first
get_perceived_values_adp_first(fantasycalc, adp) ==
  IF ~empty(get_adp_values(adp))
  THEN [df |-> get_adp_values(adp),
        queried |-> <<Query("ADP", adp, get_adp_values(adp))>>]
  ELSE [df |-> get_redraft_values(fantasycalc),
        queried |-> <<Query("ADP", adp, get_adp_values(adp)),
                      Query("FantasyCalc", fantasycalc, get_redraft_values(fantasycalc))>>]

\* get_perceived_values: the table it returns and the calls it made, in order
get_perceived_values(fantasycalc, adp) ==
  IF ~empty(get_redraft_values(fantasycalc))
  THEN [df |-> get_redraft_values(fantasycalc),
        queried |-> <<Query("FantasyCalc", fantasycalc, get_redraft_values(fantasycalc))>>]
  ELSE [df |-> get_adp_values(adp),
        queried |-> <<Query("FantasyCalc", fantasycalc, get_redraft_values(fantasycalc)),
                      Query("ADP", adp, get_adp_values(adp))>>]

\* get_rest_of_season_projections keeping the rows with projection >= 0
get_rest_of_season_projections_keeping_zero(players) ==
  IF players.none THEN [raised |-> "", df |-> EmptyDF]
  ELSE IF empty(players) THEN [raised |-> "KeyError", df |-> EmptyDF]
  ELSE [raised |-> "",
        df |-> DF(players.columns,
                  SelectSeq(players.rows,
                            LAMBDA r : FGe(r.rest_of_season_projection, Num(0))))]

\* ESPNClient.get_rest_of_season_projections on the players of the response
\* (NoneDF: no data): the rows with rest_of_season_projection > 0; a
\* response without players gives a frame without columns, and selecting
\* its rest_of_season_projection raises KeyError
get_rest_of_season_projections(players) ==
  IF players.none THEN [raised |-> "", df |-> EmptyDF]
  ELSE IF empty(players) THEN [raised |-> "KeyError", df |-> EmptyDF]
  ELSE [raised |-> "",
        df |-> DF(players.columns,
                  SelectSeq(players.rows,
                            LAMBDA r : FGt(r.rest_of_season_projection, Num(0))))]

\* config.RECENT_GAMES_WEIGHT
RECENT_GAMES_WEIGHT == Fin(2, 5)

\* combine_recent_performance_with_projections: the projections left-merged
\* with the recent stats, recent_avg 0 where there are none, and the blend
\* stored as forecasted_value_adjusted
combine_recent_performance_with_projections(projections, recent_stats, weight_recent) ==
  IF empty(recent_stats) THEN projections
  ELSE
    LET m == LeftMerge(projections.rows, recent_stats.rows)
    IN  DF(projections.columns
             \cup {"recent_total", "recent_avg", "weeks_played",
                   "forecasted_value_adjusted"},
           [i \in 1..Len(m) |->
              LET recent_avg == IF m[i].matched THEN m[i].r.recent_avg ELSE Num(0)
              IN  [m[i].l EXCEPT
                     !.recent_avg = recent_avg,
                     !.forecasted_value_adjusted =
                        FAdd(FMul(m[i].l.rest_of_season_projection,
                                  FSub(Num(1), weight_recent)),
                             FMul(FMul(recent_avg, Num(13)), weight_recent))]])

\* get_forecasted_values(): FantasyPros is a placeholder, nothing is fetched
get_forecasted_values == EmptyDF

\* forecasted_values without main.py's check of the forecasted table
forecasted_values_without_check(who, players, recent_stats) ==
  LET espn == get_rest_of_season_projections(players)
  IN  IF espn.raised # "" THEN [outcome |-> espn.raised, df |-> EmptyDF]
      ELSE IF who = "main"
      THEN [outcome |-> "",
            df |-> IF empty(espn.df) THEN EmptyDF
                   ELSE combine_recent_performance_with_projections(
                          espn.df, recent_stats, RECENT_GAMES_WEIGHT)]
      ELSE [outcome |-> "", df |-> IF empty(espn.df) THEN DummyForecast ELSE espn.df]

\* the forecasted table a script ends up with (main.py lines 142-168,
\* show_my_team.py lines 36-46), or the message or exception that ends the run
forecasted_values(who, players, recent_stats) ==
  LET espn == get_rest_of_season_projections(players)
  IN  IF espn.raised # "" THEN [outcome |-> espn.raised, df |-> EmptyDF]
      ELSE IF who = "main"
      THEN LET combined == IF empty(espn.df) THEN EmptyDF
                           ELSE combine_recent_performance_with_projections(
                                  espn.df, recent_stats, RECENT_GAMES_WEIGHT)
               forecasted == IF empty(combined) THEN get_forecasted_values
                             ELSE combined
           IN  IF empty(forecasted)
               THEN [outcome |-> "Failed to fetch forecasted values", df |-> EmptyDF]
               ELSE [outcome |-> "", df |-> forecasted]
      ELSE [outcome |-> "", df |-> IF empty(espn.df) THEN DummyForecast ELSE espn.df]

\* what the FantasyCalc request may give: a failure or a table, which may
\* list nobody
FantasyCalcResponses ==
  {RequestFailed}
  \cup {PerceivedTable(FantasyCalcColumns, c) : c \in [Names -> FantasyCalcCells]}

\* what the ADP request may give: a failure, no players, or every player at
\* the same draft position
ADPResponses ==
  {RequestFailed,
   PerceivedTable(ADPColumns, [nm \in Names |-> Unlisted]),
   PerceivedTable(ADPColumns,
                  [nm \in Names |-> [listed |-> TRUE, v |-> 100, adjusted |-> FALSE]])}

\* the players of ESPN's projection response with the projection computed
\* for each (-1: not in the response), or no data
PlayerProjections ==
  {NoneDF}
  \cup {ForecastTable("rest_of_season_projection", c) :
          c \in [Names -> {-1} \cup ForecastedValues]}

RecentAverages == {10}

\* get_player_stats_last_4_weeks: a recent_avg for the players who played
RecentStatsTables ==
  {DF({"player_name", "recent_total", "recent_avg", "weeks_played"},
      InOrder([nm \in Names |->
                 IF c[nm] < 0 THEN <<>>
                 ELSE <<[player_name |-> nm, recent_avg |-> Num(c[nm])]>>])) :
     c \in [Names -> {-1} \cup RecentAverages]}

\* the analyzer's tables are ready
StoreTables(r, p, f) ==
  /\ pc' = "step4"
  /\ roster_df' = r
  /\ perceived_df' = p
  /\ forecasted_df' = f
  /\ UNCHANGED error

\* main.py steps 1-3 and show_my_team.py lines 17-46: the three tables are
\* fetched, league data first, then the perceived values, then the forecasted
\* values; league 0 does not exist
FetchTables ==
  /\ \/ caller = "main" /\ pc = "validated"
     \/ caller = "show_my_team" /\ pc = "start"
  /\ \E response \in (IF config.LEAGUE_ID = 0 THEN Responses \ {"ok"} ELSE Responses),
        r \in RosterTables :
       /\ request' = response
       /\ IF league_data(caller, response, r) # ""
          THEN Exit(league_data(caller, response, r)) /\ UNCHANGED <<tables, queried>>
          ELSE
            \E fantasycalc \in FantasyCalcResponses :
              \E adp \in (IF empty(get_redraft_values(fantasycalc))
                          THEN ADPResponses ELSE {RequestFailed}) :
                LET p == get_perceived_values(fantasycalc, adp)
                IN  /\ queried' = p.queried
                    /\ IF empty(p.df)
                       THEN Exit("Failed to fetch perceived values") /\ UNCHANGED tables
                       ELSE
                         \E players \in PlayerProjections,
                            recent_stats \in (IF caller = "main" THEN RecentStatsTables
                                              ELSE {EmptyDF}) :
                           LET f == forecasted_values(caller, players, recent_stats)
                           IN  IF f.outcome # ""
                               THEN Exit(f.outcome) /\ UNCHANGED tables
                               ELSE StoreTables(r, p.df, f.df)
  /\ UNCHANGED <<running, previous, config, caller, merged_df, result>>

\* a caller of the class holds three tables of the input contract
ProvideTables ==
  /\ caller = "core"
  /\ pc = "start"
  /\ \E r \in RosterTables, p \in ContractPerceivedTables, f \in ContractForecastTables :
       /\ roster_df' = r
       /\ perceived_df' = p
       /\ forecasted_df' = f
  /\ pc' = "step4"
  /\ UNCHANGED <<running, request, queried, previous, config, caller, error, merged_df, result>>

\* TradeAnalyzer.__init__
Construct ==
  /\ pc = "step4"
  /\ merged_df' = NoneDF
  /\ pc' = "constructed"
  /\ UNCHANGED <<running, request, queried, previous, config, caller, error, tables, result>>

\* analyzer.merge_data_sources(); an exception ends the caller's run
MergeDataSources ==
  /\ pc = "constructed"
  /\ LET m == merge_data_sources(roster_df, perceived_df, forecasted_df)
     IN  IF m.raised # ""
         THEN Exit(m.raised) /\ UNCHANGED merged_df
         ELSE /\ merged_df' = m.df
              /\ pc' = "merged"
              /\ UNCHANGED error
  /\ UNCHANGED <<running, request, queried, previous, config, caller, tables, result>>

\* main.py lines 180-183; show_my_team.py has no such check
CheckMerged ==
  /\ caller = "main"
  /\ pc = "merged"
  /\ IF empty(merged_df)
     THEN Exit("No players with complete data")
     ELSE pc' = "checked" /\ UNCHANGED error
  /\ UNCHANGED <<running, request, queried, previous, config, caller, tables, merged_df, result>>

\* analyzer.normalize_values()
NormalizeValues ==
  /\ \/ caller = "main" /\ pc = "checked"
     \/ caller # "main" /\ pc = "merged"
  /\ merged_df' = normalize_values(merged_df)
  /\ pc' = "normalized"
  /\ UNCHANGED <<running, request, queried, previous, config, caller, error, tables, result>>

\* analyzer.calculate_discount_premium()
CalculateDiscountPremium ==
  /\ pc = "normalized"
  /\ merged_df' = calculate_discount_premium(merged_df, config)
  /\ pc' = "report"
  /\ UNCHANGED <<running, request, queried, previous, config, caller, error, tables, result>>

\* get_team_data keeping its selection in self.merged_df
GetTeamData_narrowing_merged_df ==
  /\ pc = "report"
  /\ \E team \in Teams :
       /\ result' = Result("get_team_data", team, "", 0, "",
                           get_team_data(merged_df, team), <<>>, NoStats)
       /\ merged_df' = [merged_df EXCEPT !.rows = get_team_data(merged_df, team)]
  /\ pc' = "answered"
  /\ UNCHANGED <<running, request, queried, previous, config, caller, error, tables>>

\* analyzer.get_team_data(team)
GetTeamData ==
  /\ pc = "report"
  /\ \E team \in Teams :
       result' = Result("get_team_data", team, "", 0, "",
                        get_team_data(merged_df, team), <<>>, NoStats)
  /\ pc' = "answered"
  /\ UNCHANGED <<running, request, queried, previous, config, caller, error, tables, merged_df>>

\* analyzer.analyze_team(team)
AnalyzeTeam ==
  /\ pc = "report"
  /\ caller # "show_my_team"
  /\ \E team \in Teams :
       LET a == analyze_team(merged_df, team, config)
       IN  result' = Result("analyze_team", team, "", 0, "",
                            a.overvalued, a.undervalued, NoStats)
  /\ pc' = "answered"
  /\ UNCHANGED <<running, request, queried, previous, config, caller, error, tables, merged_df>>

\* analyzer.find_trade_targets(team, position_filter)
FindTradeTargets ==
  /\ pc = "report"
  /\ caller # "show_my_team"
  /\ \E team \in Teams, position_filter \in Positions \cup {""} :
       result' = Result("find_trade_targets", team, position_filter, 0, "",
                        find_trade_targets(merged_df, team, position_filter, config),
                        <<>>, NoStats)
  /\ pc' = "answered"
  /\ UNCHANGED <<running, request, queried, previous, config, caller, error, tables, merged_df>>

\* analyzer.suggest_trade_pairs(team, max_suggestions); in main.py an
\* exception reaches the top-level handler and ends the run
SuggestTradePairs ==
  /\ pc = "report"
  /\ caller # "show_my_team"
  /\ \E team \in Teams, max_suggestions \in MaxSuggestionArgs :
       LET s == suggest_trade_pairs(merged_df, team, max_suggestions, config)
       IN  /\ result' = Result("suggest_trade_pairs", team, "", max_suggestions,
                               s.raised, s.rows, <<>>, NoStats)
           /\ IF s.raised # "" /\ caller = "main"
              THEN Exit(s.raised)
              ELSE pc' = "answered" /\ UNCHANGED error
  /\ UNCHANGED <<running, request, queried, previous, config, caller, tables, merged_df>>

\* analyzer.get_summary_stats()
GetSummaryStats ==
  /\ pc = "report"
  /\ caller # "show_my_team"
  /\ result' = Result("get_summary_stats", "", "", 0, "", <<>>, <<>>,
                      get_summary_stats(merged_df))
  /\ pc' = "answered"
  /\ UNCHANGED <<running, request, queried, previous, config, caller, error, tables, merged_df>>

\* the caller has used the result (TradeReporter prints it) and goes on
PrintReport ==
  /\ pc = "answered"
  /\ pc' = "report"
  /\ result' = NoResult
  /\ UNCHANGED <<running, request, queried, previous, config, caller, error, tables, merged_df>>

\* the script ends
Finish ==
  /\ pc = "report"
  /\ caller # "core"
  /\ pc' = "done"
  /\ UNCHANGED <<running, request, queried, previous, config, caller, error, tables, merged_df, result>>

Next ==
  \/ ValidateConfig
  \/ FetchTables
  \/ ProvideTables
  \/ Construct
  \/ MergeDataSources
  \/ CheckMerged
  \/ NormalizeValues
  \/ CalculateDiscountPremium
  \/ GetTeamData
  \/ AnalyzeTeam
  \/ FindTradeTargets
  \/ SuggestTradePairs
  \/ GetSummaryStats
  \/ PrintReport
  \/ Finish

Spec == Init /\ [][Next]_vars

(***************************************************************************)
(* A league of three rostered players, every one of them listed by both    *)
(* value sources: a caller of the class runs the pipeline on it and asks   *)
(* the queries.                                                            *)
(***************************************************************************)
LeagueNames == {AllNames[i] : i \in 1..LeaguePlayers}

\* the rows f gives for the league's players, in the order of AllNames
LeagueRows(f) == Flatten([i \in 1..LeaguePlayers |-> f[AllNames[i]]])

LeaguePerceivedValues == {50, 100}

LeagueForecastedValues == {50, 60, 150}

LeagueRosterTables ==
  {DF(RosterColumns,
      LeagueRows([nm \in LeagueNames |->
                    <<[player_name |-> nm, position |-> PositionOf(nm),
                       team_name |-> t[nm]]>>])) :
     t \in [LeagueNames -> Teams]}

LeaguePerceivedTables ==
  {DF(FantasyCalcColumns,
      LeagueRows([nm \in LeagueNames |-> <<PerceivedRow(nm, c[nm], TRUE)>>])) :
     c \in [LeagueNames -> LeaguePerceivedValues]}

LeagueForecastTables ==
  {DF({"player_name", "forecasted_value"},
      LeagueRows([nm \in LeagueNames |->
                    <<ForecastRow(nm, "forecasted_value", c[nm])>>])) :
     c \in [LeagueNames -> LeagueForecastedValues]}

InitLeague == Init /\ caller = "core"

\* the caller holds the three tables of a league
ProvideLeagueTables ==
  /\ caller = "core"
  /\ pc = "start"
  /\ \E r \in LeagueRosterTables, p \in LeaguePerceivedTables,
        f \in LeagueForecastTables :
       /\ roster_df' = r
       /\ perceived_df' = p
       /\ forecasted_df' = f
  /\ pc' = "step4"
  /\ UNCHANGED <<running, request, queried, previous, config, caller, error, merged_df, result>>

NextLeague ==
  \/ ProvideLeagueTables
  \/ Construct
  \/ MergeDataSources
  \/ NormalizeValues
  \/ CalculateDiscountPremium
  \/ GetTeamData
  \/ AnalyzeTeam
  \/ FindTradeTargets
  \/ SuggestTradePairs
  \/ GetSummaryStats
  \/ PrintReport

SpecLeague == InitLeague /\ [][NextLeague]_vars

(***************************************************************************)
(* The merge on every shape of value table, and the pipeline run again on  *)
(* the same analyzer: the value tables may list a player twice, and the    *)
(* forecasted table carries its values under either label or under a       *)
(* label the merge does not know.                                          *)
(***************************************************************************)
ForecastLabels == {"rest_of_season_projection", "forecasted_value", "projected_points"}

\* a table with one more row
WithRow(df, row) == DF(df.columns, Append(df.rows, row))

\* a perceived table of Alice and Bob whose adjusted values are the values
\* themselves
PricedTable(alice, bob) ==
  DF(FantasyCalcColumns,
     <<[PerceivedRow("Alice", alice, TRUE) EXCEPT !.perceived_value_adjusted = Num(alice)],
       [PerceivedRow("Bob", bob, TRUE) EXCEPT !.perceived_value_adjusted = Num(bob)]>>)

\* a forecasted table of Alice and Bob
ProjectedTable(alice, bob) ==
  DF({"player_name", "forecasted_value"},
     <<ForecastRow("Alice", "forecasted_value", alice),
       ForecastRow("Bob", "forecasted_value", bob)>>)

\* the two-player tables: Alice priced 100 and Bob 50, and a pair that puts
\* Alice's discount_premium on a threshold
ExamplePerceivedTables == {PricedTable(100, 50), PricedTable(11, 5)}

ExampleForecastTables == {ProjectedTable(50, 150), ProjectedTable(5, 3)}

MergePerceivedTables ==
  ContractPerceivedTables
  \cup {WithRow(p, PerceivedRow("Alice", 100, TRUE)) : p \in ContractPerceivedTables}
  \cup ExamplePerceivedTables

MergeForecastTables ==
  LET listed == {ForecastTable(label, c) :
                   label \in ForecastLabels, c \in [Names -> {-1} \cup ForecastedValues]}
  IN  listed
      \cup {WithRow(f, ForecastRow("Alice", ForecastColumn(f), 150)) : f \in listed}
      \cup ExampleForecastTables

InitMerge == Init /\ caller = "core" /\ config = ShippedConfig(1, "ppr")

ProvideMergeTables ==
  /\ caller = "core"
  /\ pc = "start"
  /\ \E r \in RosterTables, p \in MergePerceivedTables, f \in MergeForecastTables :
       /\ roster_df' = r
       /\ perceived_df' = p
       /\ forecasted_df' = f
  /\ pc' = "step4"
  /\ UNCHANGED <<running, request, queried, previous, config, caller, error, merged_df, result>>

\* what the caller keeps of the analyzer before a repeated step
Kept(op) == [op |-> op, df |-> merged_df]

\* the caller keeps a copy of merged_df and calls merge_data_sources,
\* normalize_values and calculate_discount_premium again on the same
\* analyzer
Rerun ==
  /\ caller = "core"
  /\ pc = "report"
  /\ Len(previous) < MaxRepeats
  /\ previous' = Append(previous, Kept("pipeline"))
  /\ pc' = "constructed"
  /\ UNCHANGED <<running, request, queried, config, caller, error, tables, merged_df, result>>

\* the caller keeps a copy of merged_df and calls normalize_values again
RepeatNormalizeValues ==
  /\ caller = "core"
  /\ pc = "report"
  /\ Len(previous) < MaxRepeats
  /\ previous' = Append(previous, Kept("normalize_values"))
  /\ merged_df' = normalize_values(merged_df)
  /\ UNCHANGED <<running, request, queried, config, caller, pc, error, tables, result>>

\* the caller keeps a copy of merged_df and calls
\* calculate_discount_premium again
RepeatCalculateDiscountPremium ==
  /\ caller = "core"
  /\ pc = "report"
  /\ Len(previous) < MaxRepeats
  /\ previous' = Append(previous, Kept("calculate_discount_premium"))
  /\ merged_df' = calculate_discount_premium(merged_df, config)
  /\ UNCHANGED <<running, request, queried, config, caller, pc, error, tables, result>>

NextMerge ==
  \/ ProvideMergeTables
  \/ Construct
  \/ MergeDataSources
  \/ NormalizeValues
  \/ CalculateDiscountPremium
  \/ Rerun
  \/ RepeatNormalizeValues
  \/ RepeatCalculateDiscountPremium

SpecMerge == InitMerge /\ [][NextMerge]_vars

(***************************************************************************)
(* A league of BigLeaguePlayers players, large enough for one player of a  *)
(* team to have more than three similar targets on the other team.         *)
(***************************************************************************)
BigLeagueNames == {AllNames[i] : i \in 1..BigLeaguePlayers}

\* the rows f gives for the league's players, in the order of AllNames
BigLeagueRows(f) == Flatten([i \in 1..BigLeaguePlayers |-> f[AllNames[i]]])

BigLeagueForecastedValues == {60, 150, 200}

\* Alice on TeamX, the others on either team
BigLeagueRosterTables ==
  {DF(RosterColumns,
      BigLeagueRows([nm \in BigLeagueNames |->
                       <<[player_name |-> nm, position |-> PositionOf(nm),
                          team_name |-> t[nm]]>>])) :
     t \in {u \in [BigLeagueNames -> Teams] : u["Alice"] = "TeamX"}}

\* every player at 100, or Bob at 50
BigLeaguePerceivedTables ==
  {DF(FantasyCalcColumns,
      BigLeagueRows([nm \in BigLeagueNames |->
                       <<PerceivedRow(nm, IF nm = "Bob" THEN bob ELSE 100, TRUE)>>])) :
     bob \in LeaguePerceivedValues}

\* Alice projected at 50, the others above her
BigLeagueForecastTables ==
  {DF({"player_name", "forecasted_value"},
      BigLeagueRows([nm \in BigLeagueNames |->
                       <<ForecastRow(nm, "forecasted_value", c[nm])>>])) :
     c \in {d \in [BigLeagueNames -> {50} \cup BigLeagueForecastedValues] :
              \A nm \in BigLeagueNames : d[nm] = 50 <=> nm = "Alice"}}

InitBigLeague ==
  /\ Init
  /\ caller = "core"
  /\ config = [ShippedConfig(1, "ppr") EXCEPT !.VALUE_MATCH_TOLERANCE = Fin(1, 4)]

\* the caller holds the three tables of the league
ProvideBigLeagueTables ==
  /\ caller = "core"
  /\ pc = "start"
  /\ \E r \in BigLeagueRosterTables, p \in BigLeaguePerceivedTables,
        f \in BigLeagueForecastTables :
       /\ roster_df' = r
       /\ perceived_df' = p
       /\ forecasted_df' = f
  /\ pc' = "step4"
  /\ UNCHANGED <<running, request, queried, previous, config, caller, error,
                 merged_df, result>>

NextBigLeague ==
  \/ ProvideBigLeagueTables
  \/ Construct
  \/ MergeDataSources
  \/ NormalizeValues
  \/ CalculateDiscountPremium
  \/ FindTradeTargets
  \/ SuggestTradePairs
  \/ PrintReport

SpecBigLeague == InitBigLeague /\ [][NextBigLeague]_vars

(***************************************************************************)
(* The analyzer under configurations that set the two thresholds           *)
(* differently: the shipped pair, the pair with its signs exchanged, and   *)
(* both at 0.                                                              *)
(***************************************************************************)
ThresholdPairs ==
  {[discount |-> 10, premium |-> -10],
   [discount |-> -10, premium |-> 10],
   [discount |-> 0, premium |-> 0]}

ThresholdConfigs ==
  {[ShippedConfig(1, "ppr") EXCEPT !.MIN_DISCOUNT_THRESHOLD = th.discount,
                                   !.MIN_PREMIUM_THRESHOLD = th.premium,
                                   !.VALUE_MATCH_TOLERANCE = Fin(1, 4)] :
     th \in ThresholdPairs}

InitThresholds == caller = "core" /\ config \in ThresholdConfigs /\ NotStarted

NextThresholds ==
  \/ ProvideTables
  \/ Construct
  \/ MergeDataSources
  \/ NormalizeValues
  \/ CalculateDiscountPremium
  \/ AnalyzeTeam
  \/ SuggestTradePairs
  \/ PrintReport

SpecThresholds == InitThresholds /\ [][NextThresholds]_vars

(***************************************************************************)
(* Queries of the two teams under way at the same time on one analyzer.    *)
(* A query reads self.merged_df when it takes its copy of the rows it      *)
(* selects (lines 147, 164); suggest_trade_pairs reads it twice, once in   *)
(* analyze_team and once in find_trade_targets (lines 184-185); the rest   *)
(* of each query works on its local tables.                                *)
(***************************************************************************)
ConcurrentOperations == {"analyze_team", "find_trade_targets", "suggest_trade_pairs"}

InitConcurrent == Init /\ caller = "core" /\ config.UNTOUCHABLE_PLAYERS = {}

\* a team's query is called on the classified table
CallQuery ==
  /\ caller = "core"
  /\ pc = "report"
  /\ \E t \in Teams, op \in ConcurrentOperations :
       /\ running[t].at = "idle"
       /\ running' = [running EXCEPT
                        ![t] = Call(op, "called", merged_df, <<>>, <<>>, Idle.returned)]
  /\ UNCHANGED <<request, queried, previous, config, caller, pc, error, tables,
                 merged_df, result>>

\* the rows a query copies out of the table df on its first read
first_read(op, df, t, cfg) ==
  CASE op = "analyze_team" -> get_team_data(df, t)
    [] op = "find_trade_targets" -> SelectSeq(df.rows, LAMBDA r : r.team_name # t)
    [] OTHER -> analyze_team(df, t, cfg).overvalued

\* the first read with analyze_team's selection kept in self.merged_df
ReadMergedDf_narrowing_table ==
  /\ \E t \in Teams :
       /\ running[t].at = "called"
       /\ running' = [running EXCEPT
                        ![t].local = first_read(running[t].op, merged_df, t, config),
                        ![t].at = IF running[t].op = "suggest_trade_pairs"
                                  THEN "selected" ELSE "read"]
       /\ merged_df' = IF running[t].op = "suggest_trade_pairs" THEN merged_df
                       ELSE [merged_df EXCEPT
                               !.rows = first_read(running[t].op, merged_df, t, config)]
  /\ UNCHANGED <<request, queried, previous, config, caller, pc, error, tables, result>>

\* a query takes its copy of the rows of self.merged_df it works on
ReadMergedDf ==
  /\ \E t \in Teams :
       /\ running[t].at = "called"
       /\ running' = [running EXCEPT
                        ![t].local = first_read(running[t].op, merged_df, t, config),
                        ![t].at = IF running[t].op = "suggest_trade_pairs"
                                  THEN "selected" ELSE "read"]
  /\ UNCHANGED <<request, queried, previous, config, caller, pc, error, tables,
                 merged_df, result>>

\* suggest_trade_pairs calls find_trade_targets, which reads self.merged_df
ReadTradeTargets ==
  /\ \E t \in Teams :
       /\ running[t].at = "selected"
       /\ running' = [running EXCEPT
                        ![t].targets = find_trade_targets(merged_df, t, "", config),
                        ![t].at = "read"]
  /\ UNCHANGED <<request, queried, previous, config, caller, pc, error, tables,
                 merged_df, result>>

\* what a query returns from its local tables
from_locals(call, t, cfg) ==
  CASE call.op = "analyze_team" ->
         LET a == analyze_team(DF({}, call.local), t, cfg)
         IN  Answer("", a.overvalued, a.undervalued)
    [] call.op = "find_trade_targets" ->
         Answer("", find_trade_targets(DF({}, call.local), t, "", cfg), <<>>)
    [] OTHER ->
         LET s == pair_suggestions(call.local, call.targets, DefaultMaxSuggestions, cfg)
         IN  Answer(s.raised, s.rows, <<>>)

\* the query finishes on its local tables and returns
ReturnResult ==
  /\ \E t \in Teams :
       /\ running[t].at = "read"
       /\ running' = [running EXCEPT
                        ![t].returned = from_locals(running[t], t, config),
                        ![t].at = "returned"]
  /\ UNCHANGED <<request, queried, previous, config, caller, pc, error, tables,
                 merged_df, result>>

NextConcurrent ==
  \/ ProvideLeagueTables
  \/ Construct
  \/ MergeDataSources
  \/ NormalizeValues
  \/ CalculateDiscountPremium
  \/ CallQuery
  \/ ReadMergedDf
  \/ ReadTradeTargets
  \/ ReturnResult

SpecConcurrent == InitConcurrent /\ [][NextConcurrent]_vars

(***************************************************************************)
(* Properties                                                              *)
(***************************************************************************)
Rows == merged_df.rows

RowSet == Range(Rows)

Merged == ~merged_df.none

Normalized == "perceived_normalized" \in merged_df.columns

Classified == "value_category" \in merged_df.columns

Column(c) == [i \in 1..Len(Rows) |-> Rows[i][c]]

\* the sum of all cells of a sequence, no cell skipped
RECURSIVE Total(_)
Total(s) == IF s = <<>> THEN Num(0) ELSE FAdd(Head(s), Total(Tail(s)))

FAbs(x) == IF FLt(x, Num(0)) THEN FNeg(x) ELSE x

AllPresent(s) == \A i \in 1..Len(s) : notna(s[i])

Suggested == result.op = "suggest_trade_pairs"

\* --- C1 ---------------------------------------------------------------
\* C1: after merge_data_sources, and still after normalize_values and
\* calculate_discount_premium, every row of merged_df has a non-null
\* perceived_value and a non-null forecasted_value.
C1_CompleteRows ==
  Merged => \A r \in RowSet : notna(r.perceived_value) /\ notna(r.forecasted_value)

\* --- C2 ---------------------------------------------------------------
\* C2 as stated: after normalize_values on a non-empty merged row set whose
\* rows all carry values, perceived_normalized sums to 100 times the number of
\* rows and so does forecasted_normalized, the all-zero column included.
C2_MeansAre100 ==
  (Normalized /\ Rows # <<>>
     /\ AllPresent(Column("perceived_value")) /\ AllPresent(Column("forecasted_value")))
  => /\ Total(Column("perceived_normalized")) = Num(100 * Len(Rows))
     /\ Total(Column("forecasted_normalized")) = Num(100 * Len(Rows))

\* what C2 says of one column when the column's values are all present:
\* with a positive total the normalized column sums to 100 times the number
\* of rows, with a zero total every normalized cell is NaN
MeanIs100(value, normalized) ==
  AllPresent(Column(value))
  => IF FGt(Total(Column(value)), Num(0))
     THEN Total(Column(normalized)) = Num(100 * Len(Rows))
     ELSE \A i \in 1..Len(Rows) : isna(Rows[i][normalized])

\* C2 amended: after normalize_values on a non-empty merged row set, a value
\* column whose cells are all present and whose total is positive has a
\* normalized column summing to 100 times the number of rows (mean 100); a
\* column that is all zero has every normalized cell NaN.
C2_MeansAre100WhenPositive ==
  (Normalized /\ Rows # <<>>)
  => /\ MeanIs100("perceived_value", "perceived_normalized")
     /\ MeanIs100("forecasted_value", "forecasted_normalized")

\* two rows, both value columns with a positive total, the forecasted values
\* different, normalized
C2_Witness ==
  /\ Normalized
  /\ Len(Rows) = 2
  /\ AllPresent(Column("perceived_value")) /\ AllPresent(Column("forecasted_value"))
  /\ FGt(Total(Column("perceived_value")), Num(0))
  /\ FGt(Total(Column("forecasted_value")), Num(0))
  /\ Rows[1].forecasted_normalized # Rows[2].forecasted_normalized

\* --- C3 ---------------------------------------------------------------
\* C3: calculate_discount_premium gives every row exactly one of the three
\* categories, Undervalued exactly when discount_premium >
\* MIN_DISCOUNT_THRESHOLD, Overvalued exactly when discount_premium <
\* MIN_PREMIUM_THRESHOLD, Fair Value in every other case (a NaN
\* discount_premium included), and it raises nothing: every normalized row
\* is still there, classified.
C3_CategoryPartition ==
  /\ Classified =>
       \A r \in RowSet :
         /\ r.value_category \in {"Undervalued", "Overvalued", "Fair Value"}
         /\ (r.value_category = "Undervalued")
              <=> FGt(r.discount_premium, Num(config.MIN_DISCOUNT_THRESHOLD))
         /\ (r.value_category = "Overvalued")
              <=> FLt(r.discount_premium, Num(config.MIN_PREMIUM_THRESHOLD))
  /\ pc \in {"report", "answered", "done"} => Classified

\* a classified table holding an Undervalued row and an Overvalued row whose
\* discount_premium is a finite number
C3_Witness ==
  /\ Classified
  /\ \E r \in RowSet : r.value_category = "Undervalued"
  /\ \E r \in RowSet : r.value_category = "Overvalued" /\ r.discount_premium.k = "fin"

\* --- C4 ---------------------------------------------------------------
\* C4: every suggestion suggest_trade_pairs returns has
\* |get_perceived - give_perceived| <= tolerance * give_perceived, a
\* value_gain equal to get_forecasted - give_forecasted, and value_gain > 5.
C4_SuggestionsInBandAndGaining ==
  Suggested =>
    \A s \in Range(result.rows) :
      /\ FLe(FAbs(FSub(s.get_perceived, s.give_perceived)),
             FMul(config.VALUE_MATCH_TOLERANCE, s.give_perceived))
      /\ s.value_gain = FSub(s.get_forecasted, s.give_forecasted)
      /\ FGt(s.value_gain, Num(5))
      /\ \E g \in RowSet, t \in RowSet :
           /\ g.player_name = s.give_player /\ t.player_name = s.get_player
           /\ s.give_perceived = g.perceived_normalized
           /\ s.get_perceived = t.perceived_normalized
           /\ s.give_forecasted = g.forecasted_normalized
           /\ s.get_forecasted = t.forecasted_normalized

\* a suggestion was returned
C4_Witness == Suggested /\ result.rows # <<>>

C6_ZeroForecastNotClassified ==
  Classified =>
    \A r \in RowSet :
      (r.forecasted_normalized = Num(0) /\ r.perceived_normalized.k = "fin")
      => r.value_category \notin {"Undervalued", "Overvalued", "Fair Value"}

\* --- C7 ---------------------------------------------------------------
\* C7: every setting the analysis needs is checked by validate_config before
\* the merge, so no later step of main fails because a setting is absent.
C7_NoStepFailsOnAbsentSetting ==
  caller = "main" => error # "AttributeError"

\* --- C8 ---------------------------------------------------------------
\* every discount_premium of the table is a finite number
FiniteDiscounts == \A r \in RowSet : r.discount_premium.k = "fin"

\* C8: no player named in UNTOUCHABLE_PLAYERS is the get_player or the
\* give_player of a suggestion suggest_trade_pairs returns (stated for the
\* tables whose discount_premium values are all finite).
C8_UntouchablesNeverSuggested ==
  (Suggested /\ FiniteDiscounts) =>
    \A s \in Range(result.rows) :
      /\ s.get_player \notin config.UNTOUCHABLE_PLAYERS
      /\ s.give_player \notin config.UNTOUCHABLE_PLAYERS

\* --- C9 ---------------------------------------------------------------
\* the number of times row r occurs in the sequence s
Count(s, r) == Cardinality({i \in 1..Len(s) : s[i] = r})

\* the rows C9 names for a call find_trade_targets(your_team, position_filter)
IsTradeTarget(r, your_team, position_filter) ==
  /\ r.team_name # your_team
  /\ r.value_category = "Undervalued"
  /\ r.player_name \notin config.UNTOUCHABLE_PLAYERS
  /\ position_filter # "" => r.position = position_filter

\* C9: find_trade_targets(your_team, position_filter) returns exactly the
\* classified rows of other teams that are Undervalued, not untouchable and,
\* under a position filter, of that position: each as often as merged_df
\* holds it, and no other row.
C9_TradeTargetsExact ==
  result.op = "find_trade_targets" =>
    \A r \in RowSet \cup Range(result.rows) :
      Count(result.rows, r) =
        IF IsTradeTarget(r, result.your_team, result.position_filter)
        THEN Count(Rows, r) ELSE 0

\* a filtered call under a non-empty untouchable list that returned a row
C9_Witness ==
  /\ result.op = "find_trade_targets"
  /\ result.rows # <<>>
  /\ result.position_filter # ""
  /\ config.UNTOUCHABLE_PLAYERS # {}

\* --- C10 --------------------------------------------------------------
\* a pair a suggestion could be made of under tolerance tol
PairPasses(g, t, tol) ==
  /\ FLe(FAbs(FSub(t.perceived_normalized, g.perceived_normalized)),
         FMul(tol, g.perceived_normalized))
  /\ FGt(FSub(t.forecasted_normalized, g.forecasted_normalized), Num(5))

\* C10: suggest_trade_pairs returns an empty result and raises nothing when
\* the team has no Overvalued row, when no other team has an Undervalued row
\* that is not untouchable, and when there are candidates on both sides but
\* no pair passes the tolerance band and the gain threshold (here: under no
\* tolerance a configuration of the model supplies; stated for the tables
\* whose discount_premium values are all finite).
C10_DegenerateCasesReturnEmpty ==
  (Suggested /\ FiniteDiscounts) =>
    LET give == {r \in RowSet : r.team_name = result.your_team
                                /\ r.value_category = "Overvalued"}
        get == {r \in RowSet : IsTradeTarget(r, result.your_team, "")}
    IN  (\/ give = {}
         \/ get = {}
         \/ \A g \in give, t \in get, tol \in Tolerances \ {Missing} :
              ~PairPasses(g, t, tol))
        => result.raised = "" /\ result.rows = <<>>

\* --- C11 --------------------------------------------------------------
\* G is an Overvalued row of the asking team, T a trade target on another
\* team, T passes the band and the gain threshold against G and is the only
\* target in G's band
OnlyMatch(g, t) ==
  /\ config.VALUE_MATCH_TOLERANCE # Missing
  /\ g.team_name = result.your_team
  /\ g.value_category = "Overvalued"
  /\ IsTradeTarget(t, result.your_team, "")
  /\ PairPasses(g, t, config.VALUE_MATCH_TOLERANCE)
  /\ \A u \in RowSet :
       (IsTradeTarget(u, result.your_team, "") /\ u # t)
       => ~FLe(FAbs(FSub(u.perceived_normalized, g.perceived_normalized)),
               FMul(config.VALUE_MATCH_TOLERANCE, g.perceived_normalized))

\* the result holds the suggestion give G, get T with its value_gain
Returned(g, t) ==
  \E s \in Range(result.rows) :
    /\ s.give_player = g.player_name
    /\ s.get_player = t.player_name
    /\ s.value_gain = FSub(t.forecasted_normalized, g.forecasted_normalized)

\* the other pairs of the asking team that pass band and gain threshold with
\* a value_gain at least that of the pair G, T
RivalPairs(g, t) ==
  {q \in RowSet \X RowSet :
     /\ q # <<g, t>>
     /\ q[1].team_name = result.your_team
     /\ q[1].value_category = "Overvalued"
     /\ IsTradeTarget(q[2], result.your_team, "")
     /\ PairPasses(q[1], q[2], config.VALUE_MATCH_TOLERANCE)
     /\ FGe(FSub(q[2].forecasted_normalized, q[1].forecasted_normalized),
            FSub(t.forecasted_normalized, g.forecasted_normalized))}

\* C11 as stated: when G and T are such a pair and max_suggestions >= 1,
\* suggest_trade_pairs returns the suggestion give G, get T with value_gain =
\* forecasted_normalized(T) - forecasted_normalized(G).
C11_OnlyMatchIsSuggested ==
  (Suggested /\ result.max_suggestions >= 1) =>
    \A g \in RowSet, t \in RowSet : OnlyMatch(g, t) => Returned(g, t)

\* C11 amended: when G and T are such a pair, suggest_trade_pairs returns
\* the suggestion give G, get T with value_gain = forecasted_normalized(T) -
\* forecasted_normalized(G) provided fewer than max_suggestions other passing
\* pairs of the team have a value_gain at least as large; a pair outranked
\* by max_suggestions others is cut by the truncation.
C11_OnlyMatchIsSuggestedUnlessOutranked ==
  Suggested =>
    \A g \in RowSet, t \in RowSet :
      (OnlyMatch(g, t) /\ Cardinality(RivalPairs(g, t)) < result.max_suggestions)
      => Returned(g, t)

\* one suggestion was asked for, two pairs pass, and the pair G, T has the
\* larger value_gain: it is the one returned
C11_Witness ==
  /\ Suggested
  /\ result.max_suggestions = 1
  /\ \E g \in RowSet, t \in RowSet, h \in RowSet :
       /\ h # g
       /\ OnlyMatch(g, t) /\ OnlyMatch(h, t)
       /\ RivalPairs(g, t) = {}
       /\ Returned(g, t)

\* --- C12 --------------------------------------------------------------
\* the suggestions emitted for the asking team: one for every Overvalued row
\* of the team and every trade target that passes its band and the gain
\* threshold (no row of the model has more than three targets in its band)
EmittedSuggestions ==
  {Suggestion(q[1], q[2]) :
     q \in {q \in RowSet \X RowSet :
              /\ q[1].team_name = result.your_team
              /\ q[1].value_category = "Overvalued"
              /\ IsTradeTarget(q[2], result.your_team, "")
              /\ PairPasses(q[1], q[2], config.VALUE_MATCH_TOLERANCE)}}

\* C12: the result of suggest_trade_pairs has at most max_suggestions rows,
\* is ordered by non-increasing value_gain, and consists of the highest-gain
\* emitted suggestions: every row is an emitted suggestion, as many rows are
\* kept as max_suggestions allows, and no emitted suggestion that was cut has
\* a value_gain greater than one that was kept.
C12_HighestGainsKeptInOrder ==
  (Suggested /\ result.raised = "" /\ config.VALUE_MATCH_TOLERANCE # Missing) =>
    LET kept == Range(result.rows)
        n == Cardinality(EmittedSuggestions)
    IN  /\ Len(result.rows) <= result.max_suggestions
        /\ \A i \in 1..Len(result.rows), j \in 1..Len(result.rows) :
             i < j => FGe(result.rows[i].value_gain, result.rows[j].value_gain)
        /\ kept \subseteq EmittedSuggestions
        /\ Len(result.rows)
             = (IF n < result.max_suggestions THEN n ELSE result.max_suggestions)
        /\ \A e \in EmittedSuggestions \ kept, k \in kept :
             ~FGt(e.value_gain, k.value_gain)

\* two suggestions with different gains were emitted, one was asked for
C12_Witness ==
  /\ Suggested
  /\ result.raised = "" /\ config.VALUE_MATCH_TOLERANCE # Missing
  /\ result.max_suggestions = 1
  /\ Len(result.rows) = 1
  /\ \E e \in EmittedSuggestions : FLt(e.value_gain, result.rows[1].value_gain)

\* --- C13 --------------------------------------------------------------
\* C13: after merge_data_sources, normalize_values and
\* calculate_discount_premium have run a second time on the same analyzer
\* with the same tables and configuration, merged_df is identical to the
\* copy kept of the first run's, rows and columns; and after normalize_values
\* or calculate_discount_premium alone was repeated, merged_df is identical
\* to the copy kept before the repetition.
C13_RepeatedRunsIdentical ==
  (pc = "report" /\ previous # <<>>) => merged_df = previous[Len(previous)].df

\* the whole pipeline ran a second time on a table with two classified rows
\* of different categories
C13_Witness ==
  /\ pc = "report"
  /\ previous # <<>>
  /\ previous[Len(previous)].op = "pipeline"
  /\ Len(Rows) = 2
  /\ Rows[1].value_category # Rows[2].value_category
  /\ Rows[1].discount_premium.k = "fin" /\ Rows[2].discount_premium.k = "fin"

\* --- C14 --------------------------------------------------------------
\* the adjusted values the perceived table lists for a player
AdjustedOf(name) ==
  {p.perceived_value_adjusted :
     p \in {p \in Range(perceived_df.rows) : p.player_name = name}}

\* C14: when the perceived table supplies perceived_value_adjusted, every
\* merged row's perceived_value is the adjusted value the table lists for
\* the player (null where the table lists a null adjusted value),
\* perceived_normalized is that value over the mean of the
\* adjusted values times 100, and discount_premium is computed from that
\* perceived_normalized.
C14_AdjustedValueSupersedes ==
  (Merged /\ "perceived_value_adjusted" \in perceived_df.columns) =>
    LET avg == mean(Column("perceived_value_adjusted"))
    IN  \A r \in RowSet :
          LET pn == FMul(FDiv(r.perceived_value_adjusted, avg), Num(100))
          IN  /\ r.perceived_value = r.perceived_value_adjusted
              /\ r.perceived_value_adjusted \in AdjustedOf(r.player_name)
              /\ Normalized => r.perceived_normalized = pn
              /\ Classified =>
                   r.discount_premium
                     = FMul(FDiv(FSub(r.forecasted_normalized, pn),
                                 r.forecasted_normalized),
                            Num(100))

\* a classified row whose adjusted value differs from the raw value the
\* perceived table lists
C14_Witness ==
  /\ Classified
  /\ \E r \in RowSet, p \in Range(perceived_df.rows) :
       /\ p.player_name = r.player_name
       /\ notna(p.perceived_value) /\ notna(p.perceived_value_adjusted)
       /\ p.perceived_value # p.perceived_value_adjusted
       /\ r.discount_premium.k = "fin"

\* --- C15 --------------------------------------------------------------
\* C15: merge_data_sources completes without error on every perceived table
\* that carries player_name and perceived_value, with or without
\* perceived_value_adjusted and overall_rank, the ADP fallback's table
\* included: a run that holds such a table (and a forecasted table with a
\* known label) does not end in a KeyError.
C15_MergeAcceptsOptionalColumns ==
  (/\ pc = "exit"
   /\ ~perceived_df.none
   /\ {"player_name", "perceived_value"} \subseteq perceived_df.columns
   /\ ForecastColumn(forecasted_df) # "")
  => error # "KeyError"

\* --- C16 --------------------------------------------------------------
\* the forecasted table with its value column under another label
Relabelled(df, label) ==
  DF((df.columns \ {ForecastColumn(df)}) \cup {label},
     [i \in 1..Len(df.rows) |->
        LET v == df.rows[i][ForecastColumn(df)]
        IN  [player_name |-> df.rows[i].player_name,
             rest_of_season_projection |->
               IF label = "rest_of_season_projection" THEN v ELSE NaN,
             forecasted_value |-> IF label = "forecasted_value" THEN v ELSE NaN]])

\* the merge gives the same table under either label, with the value under
\* the single name forecasted_value
SameUnderEitherLabel ==
  (pc = "merged" /\ ForecastColumn(forecasted_df) # "") =>
    /\ "forecasted_value" \in merged_df.columns
    /\ "rest_of_season_projection" \notin merged_df.columns
    /\ \A label \in {"rest_of_season_projection", "forecasted_value"} :
         merge_data_sources(roster_df, perceived_df,
                            Relabelled(forecasted_df, label)).df = merged_df

\* C16: merge_data_sources produces the same merged rows whether the
\* forecasted table labels its values rest_of_season_projection or
\* forecasted_value, the merged table carrying them as forecasted_value; and
\* a forecasted table with neither label is reported as a failure of its
\* own, the run does not end in the KeyError of a missing column.
C16_EitherLabelOrReportedFailure ==
  /\ SameUnderEitherLabel
  /\ (pc = "exit" /\ ~forecasted_df.none /\ ForecastColumn(forecasted_df) = "")
     => error # "KeyError"

\* --- C17 --------------------------------------------------------------
\* the player names a table lists
NamesIn(df) == {r.player_name : r \in Range(df.rows)}

\* C17: the merged table holds exactly one row for each roster entry whose
\* player_name occurs in both the perceived and the forecasted table and no
\* row for any other roster entry, and it never has more rows than the
\* roster, also when a value table lists a player_name more than once.
C17_OneRowPerCoveredRosterEntry ==
  Merged =>
    /\ Len(Rows) <= Len(roster_df.rows)
    /\ \A e \in Range(roster_df.rows) :
         Len(SelectSeq(Rows, LAMBDA r : r.player_name = e.player_name))
           = (IF e.player_name \in NamesIn(perceived_df) \cap NamesIn(forecasted_df)
              THEN 1 ELSE 0)

\* --- C18 --------------------------------------------------------------
\* the positions of a script from the construction of the analyzer on
PastFetch ==
  {"step4", "constructed", "merged", "checked", "normalized", "report",
   "answered", "done"}

\* C18: in a run of main, merge, normalize and classify are reached only
\* with three non-empty tables: a run that got past the fetch, or that ended
\* after the analyzer was given its tables, holds a non-empty roster table,
\* a non-empty perceived table and a non-empty forecasted table.
C18_MainMergesOnlyNonEmptyTables ==
  (caller = "main" /\ (pc \in PastFetch \/ (pc = "exit" /\ ~roster_df.none)))
  => /\ ~roster_df.none /\ ~empty(roster_df)
     /\ ~perceived_df.none /\ ~empty(perceived_df)
     /\ ~forecasted_df.none /\ ~empty(forecasted_df)

\* a run of main that ended before the merge because no forecasted values
\* could be fetched
C18_Witness ==
  /\ caller = "main"
  /\ pc = "exit"
  /\ error = "Failed to fetch forecasted values"
  /\ merged_df.none /\ roster_df.none

\* --- C19 --------------------------------------------------------------
\* C19: the outcome main reports when the merge yields no complete row
\* differs from the outcome it reports when a source table is empty, so the
\* two can be told apart by the outcome alone.
C19_EmptyMergeOutcomeDistinct ==
  (caller = "main" /\ pc = "exit" /\ error = "No players with complete data")
  => \A missing \in {"Failed to fetch perceived values",
                      "Failed to fetch forecasted values"} :
       exit_status(caller, error) # exit_status(caller, missing)

\* --- C20 --------------------------------------------------------------
\* the merged row of a player
RowOf(name) == {r \in RowSet : r.player_name = name}

\* below the configured floor
BelowFloor(r) == FLt(r.perceived_value, Num(MIN_PERCEIVED_VALUE))

\* C20: no player whose perceived value is below MIN_PERCEIVED_VALUE is in
\* the merged table, among the trade targets or in a trade suggestion.
C20_NoPlayerBelowFloor ==
  /\ Merged => \A r \in RowSet : ~BelowFloor(r)
  /\ result.op = "find_trade_targets" =>
       \A r \in Range(result.rows) : ~BelowFloor(r)
  /\ Suggested =>
       \A s \in Range(result.rows) :
         \A r \in RowOf(s.give_player) \cup RowOf(s.get_player) : ~BelowFloor(r)

\* --- C25 --------------------------------------------------------------
\* the table get_perceived_values returned: the last one a source gave it
PerceivedReturned == queried[Len(queried)].df

\* C25: get_perceived_values asks FantasyCalc first; it asks ADP exactly when
\* FantasyCalc's table was empty, and never after a non-empty one; the table
\* it returns is FantasyCalc's when that is non-empty and ADP's otherwise, so
\* it is empty only when both were; a fetch that failed gave the empty
\* table, and no exception of a value source ends the run.
C25_FantasyCalcThenADP ==
  queried # <<>> =>
    /\ queried[1].source = "FantasyCalc"
    /\ Len(queried) <= 2
    /\ Len(queried) = 2 <=> empty(queried[1].df)
    /\ Len(queried) = 2 => queried[2].source = "ADP"
    /\ \A i \in 1..Len(queried) :
         /\ ~queried[i].df.none
         /\ queried[i].failed => queried[i].df = EmptyDF
    /\ empty(PerceivedReturned) <=> \A i \in 1..Len(queried) : empty(queried[i].df)
    /\ empty(PerceivedReturned) <=>
         (pc = "exit" /\ error = "Failed to fetch perceived values")
    /\ ~perceived_df.none => perceived_df = PerceivedReturned

\* the ADP fallback supplied the table after FantasyCalc's request failed
C25_Witness ==
  /\ Len(queried) = 2
  /\ queried[1].failed
  /\ ~empty(queried[2].df)
  /\ perceived_df = queried[2].df

\* --- C30 --------------------------------------------------------------
\* C30: whenever the HTTP request of main's first ESPN call fails, with an
\* error status, a timeout or no connection, nothing is raised, the league
\* info is None and main exits with 'Failed to connect to ESPN league'.
C30_FailedRequestIsFailedConnection ==
  (caller = "main" /\ request \in {"http_error", "no_response"})
    => /\ make_request(request) = [raised |-> "", data |-> FALSE]
       /\ ~get_league_info(request).info
       /\ pc = "exit" /\ error = "Failed to connect to ESPN league"

\* --- C21 --------------------------------------------------------------
\* the value_category of a player's merged rows
CategoriesOf(name) == {r.value_category : r \in RowOf(name)}

\* the analyzer holds the two-player table of Alice (perceived 100,
\* forecasted 50) and Bob (perceived 50, forecasted 150)
AliceAndBob ==
  /\ perceived_df = PricedTable(100, 50)
  /\ forecasted_df = ProjectedTable(50, 150)
  /\ {r.player_name : r \in RowSet} = {"Alice", "Bob"}

\* C21: on every classified row with forecasted_normalized > 0,
\* discount_premium is positive exactly when forecasted_normalized exceeds
\* perceived_normalized and negative exactly when it is below it; on the
\* table of Alice (100, 50) and Bob (50, 150) Alice is Overvalued and Bob
\* Undervalued under the default thresholds.
C21_SignFollowsForecastAgainstPrice ==
  Classified =>
    /\ \A r \in RowSet :
         FGt(r.forecasted_normalized, Num(0)) =>
           /\ FGt(r.discount_premium, Num(0))
                <=> FGt(r.forecasted_normalized, r.perceived_normalized)
           /\ FLt(r.discount_premium, Num(0))
                <=> FLt(r.forecasted_normalized, r.perceived_normalized)
    /\ AliceAndBob =>
         /\ CategoriesOf("Alice") = {"Overvalued"}
         /\ CategoriesOf("Bob") = {"Undervalued"}

\* the example table was classified: Alice at -500/3 and Bob at 500/9
C21_Witness ==
  /\ Classified
  /\ AliceAndBob
  /\ \A r \in RowOf("Alice") : r.discount_premium = Fin(-500, 3)
  /\ \A r \in RowOf("Bob") : r.discount_premium = Fin(500, 9)

\* --- C22 --------------------------------------------------------------
\* the positions at which an analyzer exists or is being built
AnalyzerPositions ==
  {"step4", "constructed", "merged", "checked", "normalized", "report", "answered"}

QueryOperations ==
  {"analyze_team", "get_team_data", "find_trade_targets", "suggest_trade_pairs",
   "get_summary_stats"}

\* C22: no operation of TradeAnalyzer changes roster_df, perceived_df or
\* forecasted_df, and a step in which analyze_team, get_team_data,
\* find_trade_targets, suggest_trade_pairs or get_summary_stats answers
\* leaves merged_df as it was.
C22_InputsAndQueriedTableUnchanged ==
  [][/\ pc \in AnalyzerPositions => tables' = tables
     /\ (pc = "report" /\ result'.op \in QueryOperations) => merged_df' = merged_df]_vars

\* a query answered from a classified table that has rows
C22_Witness ==
  /\ pc = "answered"
  /\ result.op = "get_team_data"
  /\ result.rows # <<>>
  /\ Classified

\* --- C23 --------------------------------------------------------------
\* what the query op of team t returns when it runs alone on the table df
Alone(op, t, df) ==
  CASE op = "analyze_team" ->
         Answer("", analyze_team(df, t, config).overvalued,
                analyze_team(df, t, config).undervalued)
    [] op = "find_trade_targets" ->
         Answer("", find_trade_targets(df, t, "", config), <<>>)
    [] OTHER ->
         Answer(suggest_trade_pairs(df, t, DefaultMaxSuggestions, config).raised,
                suggest_trade_pairs(df, t, DefaultMaxSuggestions, config).rows, <<>>)

\* C23: when analyze_team, find_trade_targets or suggest_trade_pairs of two
\* teams run interleaved on one classified table and one configuration, each
\* returns what it returns when run alone on that table, whatever the order
\* of their steps.
C23_InterleavedQueriesReturnAsAlone ==
  \A t \in Teams :
    running[t].at = "returned"
      => running[t].returned = Alone(running[t].op, t, running[t].table)

\* both teams' queries have returned, one of them with suggestions, after
\* the other was called before it finished
C23_Witness ==
  /\ \A t \in Teams : running[t].at = "returned"
  /\ running["TeamX"].op = "suggest_trade_pairs"
  /\ running["TeamX"].returned.rows # <<>>
  /\ running["TeamY"].op = "find_trade_targets"
  /\ running["TeamY"].returned.rows # <<>>

\* --- C24 --------------------------------------------------------------
\* T's perceived_normalized is within the tolerance of G's
InTolerance(g, t) ==
  FLe(FAbs(FSub(t.perceived_normalized, g.perceived_normalized)),
      FMul(config.VALUE_MATCH_TOLERANCE, g.perceived_normalized))

\* the give-candidates of the asking team
GiveCandidates ==
  {g \in RowSet : g.team_name = result.your_team /\ g.value_category = "Overvalued"}

\* the in-tolerance trade targets of the give-candidate G
InToleranceTargets(g) ==
  {t \in RowSet : IsTradeTarget(t, result.your_team, "") /\ InTolerance(g, t)}

\* the in-tolerance targets of G with a discount_premium above T's
Ahead(g, t) ==
  {u \in InToleranceTargets(g) : FGt(u.discount_premium, t.discount_premium)}

\* the other in-tolerance targets of G with a discount_premium not below T's
NotBehind(g, t) ==
  {u \in InToleranceTargets(g) \ {t} : FGe(u.discount_premium, t.discount_premium)}

\* the suggestions that give G
SuggestionsGiving(g) == {s \in Range(result.rows) : s.give_player = g.player_name}

Gains(g, t) == FGt(FSub(t.forecasted_normalized, g.forecasted_normalized), Num(5))

\* C24: for each give-candidate, suggest_trade_pairs looks only at the up to
\* three in-tolerance trade targets with the highest discount_premium: a
\* suggested target is in tolerance, gains more than 5 and has fewer than
\* three in-tolerance targets above it; an in-tolerance target that gains
\* and has fewer than three others at or above it is suggested; and no
\* give-candidate has more than three suggestions.
C24_TopThreeTargetsPerGiveCandidate ==
  (Suggested /\ result.raised = "" /\ result.max_suggestions = DefaultMaxSuggestions) =>
    \A g \in GiveCandidates :
      /\ Cardinality(SuggestionsGiving(g)) <= 3
      /\ \A s \in SuggestionsGiving(g) :
           \E t \in InToleranceTargets(g) :
             /\ t.player_name = s.get_player
             /\ Gains(g, t)
             /\ Cardinality(Ahead(g, t)) < 3
      /\ \A t \in InToleranceTargets(g) :
           (Gains(g, t) /\ Cardinality(NotBehind(g, t)) < 3) => Returned(g, t)

\* a give-candidate with four in-tolerance targets that all gain: three are
\* suggested, the fourth is not
C24_Witness ==
  /\ Suggested
  /\ \E g \in GiveCandidates :
       /\ Cardinality(SuggestionsGiving(g)) = 3
       /\ Cardinality({t \in InToleranceTargets(g) : Gains(g, t)}) = 4
       /\ \E t \in InToleranceTargets(g) : Gains(g, t) /\ ~Returned(g, t)

\* --- C26 --------------------------------------------------------------
UndervaluedBuckets == {"Severely undervalued - BUY", "Undervalued - Good buy target"}

OvervaluedBuckets == {"Overvalued - Good sell candidate", "Severely overvalued - SELL"}

\* C26: under the default thresholds value_category and interpretation agree
\* on every classified row, whatever its discount_premium, 10 and -10
\* included: Undervalued goes with the two undervalued buckets, Overvalued
\* with the two overvalued buckets and Fair Value with 'Fair value'.
C26_CategoryAgreesWithInterpretation ==
  (Classified /\ config.MIN_DISCOUNT_THRESHOLD = 10 /\ config.MIN_PREMIUM_THRESHOLD = -10) =>
    \A r \in RowSet :
      notna(r.discount_premium) =>
        /\ r.value_category = "Undervalued" <=> r.interpretation \in UndervaluedBuckets
        /\ r.value_category = "Overvalued" <=> r.interpretation \in OvervaluedBuckets
        /\ r.value_category = "Fair Value" <=> r.interpretation = "Fair value"

\* --- C27 --------------------------------------------------------------
\* the rows of the asking team stored with the category
TeamRowsOf(category) ==
  {r \in RowSet : r.team_name = result.your_team /\ r.value_category = category}

\* C27: whatever the two thresholds are, the overvalued table analyze_team
\* returns holds exactly the team's rows stored as Overvalued, the
\* undervalued table exactly those stored as Undervalued, and no row is in
\* both; every give_player of a suggestion is stored as Overvalued and every
\* get_player as Undervalued.
C27_AnalyzeTeamFollowsStoredCategory ==
  /\ result.op = "analyze_team" =>
       /\ Range(result.rows) = TeamRowsOf("Overvalued")
       /\ Range(result.rows2) = TeamRowsOf("Undervalued")
       /\ Range(result.rows) \cap Range(result.rows2) = {}
  /\ Suggested =>
       \A s \in Range(result.rows) :
         /\ \A r \in RowOf(s.give_player) : r.value_category = "Overvalued"
         /\ \A r \in RowOf(s.get_player) : r.value_category = "Undervalued"

\* --- C28 --------------------------------------------------------------
\* main combined the projections with recent stats
Combined == caller = "main" /\ "forecasted_value_adjusted" \in forecasted_df.columns

\* rest_of_season_projection * (1 - weight_recent) + recent_avg * 13 *
\* weight_recent for a row of the combined table, recent_avg 0 when absent
Blend(f) ==
  LET recent_avg == IF isna(f.recent_avg) THEN Num(0) ELSE f.recent_avg
  IN  FAdd(FMul(f.rest_of_season_projection, FSub(Num(1), RECENT_GAMES_WEIGHT)),
           FMul(FMul(recent_avg, Num(13)), RECENT_GAMES_WEIGHT))

\* C28: when main has combined the projections with non-empty recent stats,
\* the forecasted_value of every merged row is the blended value of the
\* player's row in the combined table.
C28_MergedForecastIsBlend ==
  (Combined /\ Merged) =>
    \A r \in RowSet :
      \A f \in Range(forecasted_df.rows) :
        f.player_name = r.player_name => r.forecasted_value = Blend(f)

\* --- C29 --------------------------------------------------------------
\* C29: in a run of main every row of the projections table has
\* rest_of_season_projection > 0, every merged row has forecasted_value > 0
\* and, once normalized, forecasted_normalized > 0, so the division of
\* calculate_discount_premium has no zero denominator.
C29_MainForecastsArePositive ==
  caller = "main" =>
    /\ \A f \in Range(forecasted_df.rows) : FGt(f.rest_of_season_projection, Num(0))
    /\ Merged => \A r \in RowSet : FGt(r.forecasted_value, Num(0))
    /\ Normalized => \A r \in RowSet : FGt(r.forecasted_normalized, Num(0))
    /\ Classified =>
         \A r \in RowSet :
           /\ r.discount_premium.k # "inf"
           /\ isna(r.discount_premium) => isna(r.perceived_normalized)

\* main classified a table from which the projections left out one of the
\* two players of the roster and of the perceived table
C29_Witness ==
  /\ caller = "main"
  /\ Classified
  /\ Len(roster_df.rows) = 2
  /\ Len(perceived_df.rows) = 2
  /\ Len(forecasted_df.rows) = 1
  /\ Len(Rows) = 1
  /\ \A r \in RowSet : r.discount_premium.k = "fin"

====
